---- MODULE Spec2Model ----
(***************************************************************************)
(* A model of DodoEnv (src/dodo_env.py): the batched episodic state        *)
(* machine around the physics backend, its command sampler, its reward     *)
(* registry with the per-episode accumulators, and the observation         *)
(* assembler.                                                              *)
(*                                                                         *)
(* Numbers.  The program computes in floating point; the model computes    *)
(* in fixed point on integers:                                             *)
(*   - lengths, reward-term values: hundredths (1.0 is One);               *)
(*   - reward scales: millionths (1.0 is ScaleOne), so that a scale        *)
(*     multiplied by dt once or twice is still an exact integer;           *)
(*   - scaled rewards r = value * scale: 1e-8;                             *)
(*   - times of the configuration: milliseconds;                           *)
(*   - angles, joint positions, velocities, actions, commands: integers    *)
(*     in the unit the program uses (degrees, radians, m/s).               *)
(*                                                                         *)
(* The physics backend (scene.step and the robot's getters) is a black     *)
(* box: what it reports after a tick is an input of step, drawn from       *)
(* Readings.  The quaternion algebra of genesis.utils.geom is not          *)
(* modelled: a reading carries the base quaternion together with the       *)
(* Euler angles, body-frame velocities and projected gravity the program   *)
(* derives from it.                                                        *)
(***************************************************************************)
EXTENDS Integers, Sequences, FiniteSets, TLC

\* ---------------------------------------------------------------- bounds
\* num_envs of the constructor: the number of rows of every buffer.
NumEnvs == 2
\* Number of public calls (step, reset, _resample_commands) explored.
MaxCalls == 2

\* Number of steps explored where the hip-angle ring buffer has to wrap around.
MaxTicks == 11

\* Foot heights given to foot_contact_penalty on its own: -1 .. MaxHeight hundredths.
MaxHeight == 12

\* ------------------------------------------------------- program constants
\* dt = 0.01 = DtNum / DtDen seconds.
DtNum == 1
DtDen == 100
\* CONTACT_HEIGHT = 0.05 and SWING_HEIGHT_THRESHOLD = 0.10, in hundredths.
CONTACT_HEIGHT == 5
SWING_HEIGHT_THRESHOLD == 10
\* Length of the hip-angle ring buffer: torch.zeros((num_envs, 2, 10)).
HistLen == 10

\* Fixed-point units.
One == DtDen
ScaleOne == One * One * One

Rows == 0 .. (NumEnvs - 1)

\* ---------------------------------------------------------------- helpers
Abs(x) == IF x < 0 THEN -x ELSE x
Max2(a, b) == IF a >= b THEN a ELSE b
relu(x) == IF x > 0 THEN x ELSE 0
\* math.ceil(a / b) and int(a / b) for a >= 0, b > 0.
CeilDiv(a, b) == (a + b - 1) \div b
IntDiv(a, b) == a \div b
\* torch.clip(x, lo, hi)
clip(x, lo, hi) == IF x < lo THEN lo ELSE IF x > hi THEN hi ELSE x
\* F(v), with v evaluated once and then named (TLC evaluates an operator's
\* argument anew at each use).
Bind(v, F(_)) == CHOOSE r \in {F(x) : x \in {v}} : TRUE
Zeros(n) == [k \in 1 .. n |-> 0]

RECURSIVE GCD(_, _)
GCD(a, b) == IF b = 0 THEN Abs(a) ELSE GCD(b, a % b)
\* An exact quotient num / den (den > 0), in lowest terms.
Frac(num, den) ==
    LET g == GCD(Abs(num), den)
    IN  IF g = 0 THEN [num |-> 0, den |-> 1] ELSE [num |-> num \div g, den |-> den \div g]

RECURSIVE SumOver(_, _)
\* Sum of f[x] over the finite set S.
SumOver(S, f) ==
    IF S = {} THEN 0
    ELSE LET x == CHOOSE y \in S : TRUE IN f[x] + SumOver(S \ {x}, f)

\* Position of a name in a list of names (list.index); 0 when absent.
IndexOf(names, n) ==
    IF \E k \in 1 .. Len(names) : names[k] = n
    THEN CHOOSE k \in 1 .. Len(names) : names[k] = n /\ \A j \in 1 .. (k - 1) : names[j] # n
    ELSE 0

\* ------------------------------------------------------------ configuration
\* env_cfg["joint_names"]: the constructor looks up these six names.
joint_names ==
    << "Left_HIP_AA", "Right_HIP_AA", "Left_THIGH_FE", "Right_THIGH_FE",
       "Left_KNEE_FE", "Right_SHIN_FE" >>

\* The configurations name four reward terms: survive, action_rate,
\* foot_contact_penalty and foot_contact_switch.  The other _reward_* methods
\* are left out of them.
\* A configuration as the caller writes it (env_cfg, obs_cfg, reward_cfg and
\* command_cfg in one record).  reward_scales is a Python dict: a list of
\* (name, raw scale) in insertion order.  simulate_action_latency is <<>> when
\* the key is absent.
CfgA ==
    [ id |-> "A",
      num_obs |-> 27, num_actions |-> 6, num_commands |-> 3,
      episode_length_ms |-> 10, resampling_time_ms |-> 20,
      clip_actions |-> 2, action_scale |-> 2,
      termination_if_pitch_greater_than |-> 30,
      termination_if_roll_greater_than |-> 25,
      default_joint_angles |-> << 0, 0, 1, -1, 2, -2 >>,
      base_init_pos |-> << 0, 0, 55 >>, base_init_quat |-> << 1, 0, 0, 0 >>,
      simulate_action_latency |-> << >>,
      reward_scales |-> << [name |-> "survive", scale |-> ScaleOne],
                           [name |-> "action_rate", scale |-> -ScaleOne],
                           [name |-> "foot_contact_penalty", scale |-> -2 * ScaleOne],
                           [name |-> "foot_contact_switch", scale |-> ScaleOne] >>,
      lin_vel_x_range |-> << -2, 2 >>, lin_vel_y_range |-> << -4, 4 >>,
      ang_vel_range |-> << 2, 4 >>,
      obs_scales |-> [lin_vel |-> 2, ang_vel |-> 3, dof_pos |-> 1, dof_vel |-> 2] ]

\* Latency switched off, a longer episode, a resampling interval of 2.5 ticks,
\* the two foot terms configured with the scales the constructor writes, and a
\* num_obs that is not 9 + 3 * num_actions.
CfgB ==
    [ CfgA EXCEPT
      !.id = "B",
      !.num_obs = 30,
      !.episode_length_ms = 15, !.resampling_time_ms = 25,
      !.simulate_action_latency = << FALSE >>,
      !.reward_scales = << [name |-> "foot_contact_switch", scale |-> ScaleOne \div 2],
                           [name |-> "survive", scale |-> 2 * ScaleOne],
                           [name |-> "foot_contact_penalty", scale |-> -ScaleOne] >> ]

\* reward_scales lists neither foot term.
CfgC ==
    [ CfgA EXCEPT
      !.id = "C",
      !.reward_scales = << [name |-> "survive", scale |-> ScaleOne] >> ]

\* reward_scales lists foot_contact_switch but not foot_contact_penalty.
CfgD ==
    [ CfgA EXCEPT
      !.id = "D",
      !.reward_scales = << [name |-> "foot_contact_switch", scale |-> ScaleOne],
                           [name |-> "survive", scale |-> ScaleOne] >> ]

\* gait_regularity configured, next to both foot terms; an episode of 4 ticks.
CfgG ==
    [ CfgA EXCEPT
      !.id = "G",
      !.episode_length_ms = 40,
      !.reward_scales = << [name |-> "gait_regularity", scale |-> ScaleOne],
                           [name |-> "survive", scale |-> ScaleOne],
                           [name |-> "foot_contact_penalty", scale |-> -ScaleOne],
                           [name |-> "foot_contact_switch", scale |-> ScaleOne \div 2] >> ]

\* Every one of them names only rewards that have an evaluator and joints
\* that exist, so the constructor accepts it.
Configs == {CfgA, CfgB, CfgC, CfgD}

\* The names of a reward_scales dict, as a set.
ScaleNames(rs) == {rs[k].name : k \in 1 .. Len(rs)}
\* The raw scale the configuration gives a name.
RawScale(rs, n) == rs[CHOOSE k \in 1 .. Len(rs) : rs[k].name = n].scale

\* -------------------------------------------------------- backend readings
\* What the backend reports for one row after a tick: the two ankle links'
\* heights (Right_FOOT_FE, Left_FOOT_FE), the base pose, and what the program
\* derives from the base quaternion.
Readings ==
    { \* standing on both feet, nominal
      [ feet |-> << 2, 2 >>, base_pos |-> << 0, 0, 55 >>, base_quat |-> << 1, 0, 0, 0 >>,
        euler |-> << 0, 0, 0 >>, lin_vel |-> << 0, 0, 0 >>, ang_vel |-> << 0, 0, 0 >>,
        gravity |-> << 0, 0, -1 >>,
        dof_pos |-> << 0, 0, 1, -1, 2, -2 >>, dof_vel |-> << 0, 0, 0, 0, 0, 0 >> ],
      \* one foot down, the other high; pitch exactly at the threshold
      [ feet |-> << 2, 12 >>, base_pos |-> << 3, 0, 60 >>, base_quat |-> << 9, 0, 3, 0 >>,
        euler |-> << 0, 30, 0 >>, lin_vel |-> << 1, 0, 1 >>, ang_vel |-> << 0, 1, 0 >>,
        gravity |-> << -1, 0, -1 >>,
        dof_pos |-> << 1, 0, 3, -2, 2, -2 >>, dof_vel |-> << 0, 0, 1, -1, 0, 0 >> ],
      \* both feet off the ground; pitched beyond the threshold
      [ feet |-> << 5, 12 >>, base_pos |-> << 5, 0, 40 >>, base_quat |-> << 8, 0, -4, 0 >>,
        euler |-> << 0, -31, 0 >>, lin_vel |-> << 1, 0, -1 >>, ang_vel |-> << 0, -2, 0 >>,
        gravity |-> << 1, 0, -1 >>,
        dof_pos |-> << 0, 1, -2, 2, 3, -2 >>, dof_vel |-> << 1, 0, -1, 1, 0, 0 >> ],
      \* the other foot down, the swing foot low; rolled beyond the threshold
      [ feet |-> << 7, 2 >>, base_pos |-> << 5, 2, 45 >>, base_quat |-> << 8, 4, 0, 0 >>,
        euler |-> << 26, 0, 0 >>, lin_vel |-> << 0, 1, 0 >>, ang_vel |-> << 2, 0, 0 >>,
        gravity |-> << 0, 1, -1 >>,
        dof_pos |-> << 2, -1, 1, 4, 2, -1 >>, dof_vel |-> << 0, 1, 0, 2, 0, 0 >> ] }

\* The nominal reading (standing on both feet, upright), with the left and
\* right hip flexion angles l and r.
WithHips(l, r) ==
    [ feet |-> << 2, 2 >>, base_pos |-> << 0, 0, 55 >>, base_quat |-> << 1, 0, 0, 0 >>,
      euler |-> << 0, 0, 0 >>, lin_vel |-> << 0, 0, 0 >>, ang_vel |-> << 0, 0, 0 >>,
      gravity |-> << 0, 0, -1 >>,
      dof_pos |-> << 0, 0, l, r, 2, -2 >>, dof_vel |-> << 0, 0, 0, 0, 0, 0 >> ]

\* The readings of all rows after a tick.  With two rows this is every pair
\* of readings; further rows repeat the pattern, which keeps the branching of
\* a tick independent of NumEnvs.
ReadingTensors ==
    { [i \in Rows |-> IF i % 2 = 0 THEN a ELSE b] : a \in Readings, b \in Readings }

\* The raw action tensors the caller passes to step: all zero, or one whose
\* entries differ by row and lie partly outside [-clip_actions, clip_actions].
ActionTensors ==
    { [i \in Rows |-> Zeros(6)],
      [i \in Rows |-> << 3, -3, 1, 0, -1, i + 1 >>] }

\* The values torch.rand draws for the three command components of one row,
\* in hundredths.
RandTriples == { << 0, 50, 75 >>, << 50, 0, 25 >> }
\* The draws of a batch: neighbouring rows draw different triples.
DrawTensors ==
    { [i \in Rows |-> IF i % 2 = 0 THEN p[1] ELSE p[2]] :
        p \in {q \in RandTriples \X RandTriples : q[1] # q[2]} }

\* ------------------------------------------------------------- constructor
\* scale * self.dt
TimesDt(scale) == (scale * DtNum) \div DtDen

\* self.max_episode_length = math.ceil(env_cfg["episode_length_s"] / self.dt)
MaxEpisodeLength(c) == CeilDiv(c.episode_length_ms * DtDen, 1000 * DtNum)

\* int(self.env_cfg["resampling_time_s"] / self.dt)
ResamplingTicks(c) == IntDiv(c.resampling_time_ms * DtDen, 1000 * DtNum)

\* self.reward_scales after the constructor: every configured scale times
\* dt, then the two foot terms written with their fixed scales.
CtorRewardScales(c) ==
    [ n \in ScaleNames(c.reward_scales) \cup {"foot_contact_penalty", "foot_contact_switch"} |->
        IF n = "foot_contact_penalty" THEN TimesDt(-ScaleOne)
        ELSE IF n = "foot_contact_switch" THEN TimesDt(ScaleOne \div 2)
        ELSE TimesDt(RawScale(c.reward_scales, n)) ]

\* self.reward_functions after the constructor, as the list of its keys in
\* insertion order: the configured names, then each foot term not yet there.
CtorRewardFunctions(c) ==
    LET configured == [k \in 1 .. Len(c.reward_scales) |-> c.reward_scales[k].name]
        withPenalty == IF "foot_contact_penalty" \in ScaleNames(c.reward_scales)
                       THEN configured ELSE Append(configured, "foot_contact_penalty")
    IN  IF "foot_contact_switch" \in ScaleNames(c.reward_scales)
        THEN withPenalty ELSE Append(withPenalty, "foot_contact_switch")

\* self.episode_sums after the constructor: one accumulator per configured name.
CtorEpisodeSums(c) == [n \in ScaleNames(c.reward_scales) |-> [i \in Rows |-> 0]]

\* The caller's configuration after the constructor has run: self.reward_scales
\* is the dict reward_cfg["reward_scales"] itself (line 39), so what the
\* constructor writes into self.reward_scales (lines 119-127) is written into
\* the configuration.
ConfigAfterCtor(c) ==
    [ c EXCEPT !.reward_scales =
        [ k \in 1 .. Len(CtorRewardFunctions(c)) |->
            [ name |-> CtorRewardFunctions(c)[k],
              scale |-> CtorRewardScales(c)[CtorRewardFunctions(c)[k]] ] ] ]

\* The object after DodoEnv.__init__(num_envs, env_cfg, obs_cfg, reward_cfg,
\* command_cfg) and _init_buffers().  Attributes that do not exist yet
\* (current_ankle_heights, base_euler) and dict keys that are not set yet
\* (extras["observations"]["critic"], extras["episode"]) are the empty
\* sequence; once set they are a one-element sequence.
Construct(c) ==
    [ num_obs |-> c.num_obs,
      num_actions |-> c.num_actions,
      simulate_action_latency |->
          IF c.simulate_action_latency = << >> THEN TRUE ELSE c.simulate_action_latency[1],
      max_episode_length |-> MaxEpisodeLength(c),
      hip_fe_indices |-> << IndexOf(joint_names, "Left_THIGH_FE"),
                            IndexOf(joint_names, "Right_THIGH_FE") >>,
      hip_angle_history |-> [i \in Rows |-> [s \in 1 .. 2 |-> [k \in 0 .. (HistLen - 1) |-> 0]]],
      history_idx |-> 0,
      reward_scales |-> CtorRewardScales(c),
      reward_functions |-> CtorRewardFunctions(c),
      episode_sums |-> CtorEpisodeSums(c),
      prev_contact |-> [i \in Rows |-> << 0, 0 >>],
      base_lin_vel |-> [i \in Rows |-> << 0, 0, 0 >>],
      base_ang_vel |-> [i \in Rows |-> << 0, 0, 0 >>],
      projected_gravity |-> [i \in Rows |-> << 0, 0, 0 >>],
      obs_buf |-> [i \in Rows |-> Zeros(c.num_obs)],
      rew_buf |-> [i \in Rows |-> 0],
      reset_buf |-> [i \in Rows |-> TRUE],
      episode_length_buf |-> [i \in Rows |-> 0],
      commands |-> [i \in Rows |-> Zeros(c.num_commands)],
      commands_scale |-> << c.obs_scales.lin_vel, c.obs_scales.lin_vel, c.obs_scales.ang_vel >>,
      actions |-> [i \in Rows |-> Zeros(c.num_actions)],
      last_actions |-> [i \in Rows |-> Zeros(c.num_actions)],
      dof_pos |-> [i \in Rows |-> Zeros(c.num_actions)],
      dof_vel |-> [i \in Rows |-> Zeros(c.num_actions)],
      last_dof_vel |-> [i \in Rows |-> Zeros(c.num_actions)],
      base_pos |-> [i \in Rows |-> << 0, 0, 0 >>],
      base_quat |-> [i \in Rows |-> << 0, 0, 0, 0 >>],
      default_dof_pos |-> c.default_joint_angles,
      current_ankle_heights |-> << >>,
      base_euler |-> << >>,
      extras |-> [critic |-> << >>, episode |-> << >>] ]

\* --------------------------------------------------------- command sampler
\* gs_rand_float(lower, upper, ...) for one element, u being the value
\* torch.rand drew, in hundredths.
gs_rand_float(lower, upper, u) == ((upper - lower) * u) \div One + lower

\* A variant of _resample_commands that ignores env_ids and redraws every row.
ResampleCommands_AllRows(e, c, env_ids, draws) ==
    [ e EXCEPT !.commands =
        [ i \in Rows |->
            [ e.commands[i] EXCEPT
                ![1] = gs_rand_float(c.lin_vel_x_range[1], c.lin_vel_x_range[2], draws[i][1]),
                ![2] = gs_rand_float(c.lin_vel_y_range[1], c.lin_vel_y_range[2], draws[i][2]),
                ![3] = gs_rand_float(c.ang_vel_range[1], c.ang_vel_range[2], draws[i][3]) ] ] ]

\* _resample_commands(env_ids): draws[i] are the three values torch.rand
\* drew for row i.
ResampleCommands(e, c, env_ids, draws) ==
    [ e EXCEPT !.commands =
        [ i \in Rows |->
            IF i \in env_ids
            THEN [ e.commands[i] EXCEPT
                     ![1] = gs_rand_float(c.lin_vel_x_range[1], c.lin_vel_x_range[2], draws[i][1]),
                     ![2] = gs_rand_float(c.lin_vel_y_range[1], c.lin_vel_y_range[2], draws[i][2]),
                     ![3] = gs_rand_float(c.ang_vel_range[1], c.ang_vel_range[2], draws[i][3]) ]
            ELSE e.commands[i] ] ]

\* ------------------------------------------------------------------- reset
\* (h < self.CONTACT_HEIGHT).float() for the two feet of a row
Contact(h) == << IF h[1] < CONTACT_HEIGHT THEN 1 ELSE 0, IF h[2] < CONTACT_HEIGHT THEN 1 ELSE 0 >>

\* A variant of the logged value that sums over the rows instead of averaging.
EpisodeAverage_Sum(sums, env_ids, c) == Frac(SumOver(env_ids, sums), c.episode_length_ms)

\* The value logged as rew_<name>: torch.mean(self.episode_sums[name][env_ids])
\* / episode_length_s, an exact quotient in units of 1e-5.
EpisodeAverage(sums, env_ids, c) ==
    Frac(SumOver(env_ids, sums), Cardinality(env_ids) * c.episode_length_ms)

\* A variant of the buffer writes of reset_idx that also blanks the
\* observation rows of env_ids.
ResetBuffers_ClearsObs(e, c, env_ids) ==
    [ e EXCEPT
        !.prev_contact =
            [ i \in Rows |->
                IF i \in env_ids
                THEN Contact(IF e.current_ankle_heights # << >>
                             THEN e.current_ankle_heights[1][i] ELSE << 0, 0 >>)
                ELSE e.prev_contact[i] ],
        !.dof_pos = [i \in Rows |-> IF i \in env_ids THEN e.default_dof_pos ELSE e.dof_pos[i]],
        !.dof_vel = [i \in Rows |-> IF i \in env_ids THEN Zeros(e.num_actions) ELSE e.dof_vel[i]],
        !.base_pos = [i \in Rows |-> IF i \in env_ids THEN c.base_init_pos ELSE e.base_pos[i]],
        !.base_quat = [i \in Rows |-> IF i \in env_ids THEN c.base_init_quat ELSE e.base_quat[i]],
        !.base_lin_vel = [i \in Rows |-> IF i \in env_ids THEN << 0, 0, 0 >> ELSE e.base_lin_vel[i]],
        !.base_ang_vel = [i \in Rows |-> IF i \in env_ids THEN << 0, 0, 0 >> ELSE e.base_ang_vel[i]],
        !.last_actions =
            [i \in Rows |-> IF i \in env_ids THEN Zeros(e.num_actions) ELSE e.last_actions[i]],
        !.last_dof_vel =
            [i \in Rows |-> IF i \in env_ids THEN Zeros(e.num_actions) ELSE e.last_dof_vel[i]],
        !.episode_length_buf = [i \in Rows |-> IF i \in env_ids THEN 0 ELSE e.episode_length_buf[i]],
        !.obs_buf = [i \in Rows |-> IF i \in env_ids THEN Zeros(c.num_obs) ELSE e.obs_buf[i]],
        !.reset_buf = [i \in Rows |-> IF i \in env_ids THEN TRUE ELSE e.reset_buf[i]],
        !.extras.episode =
            << [n \in DOMAIN e.episode_sums |-> EpisodeAverage(e.episode_sums[n], env_ids, c)] >>,
        !.episode_sums =
            [ n \in DOMAIN e.episode_sums |->
                [i \in Rows |-> IF i \in env_ids THEN 0 ELSE e.episode_sums[n][i]] ] ]

\* reset_idx(env_ids), lines 188-225: everything before the new commands.
ResetBuffers(e, c, env_ids) ==
    [ e EXCEPT
        !.prev_contact =
            [ i \in Rows |->
                IF i \in env_ids
                THEN Contact(IF e.current_ankle_heights # << >>
                             THEN e.current_ankle_heights[1][i] ELSE << 0, 0 >>)
                ELSE e.prev_contact[i] ],
        !.dof_pos = [i \in Rows |-> IF i \in env_ids THEN e.default_dof_pos ELSE e.dof_pos[i]],
        !.dof_vel = [i \in Rows |-> IF i \in env_ids THEN Zeros(e.num_actions) ELSE e.dof_vel[i]],
        !.base_pos = [i \in Rows |-> IF i \in env_ids THEN c.base_init_pos ELSE e.base_pos[i]],
        !.base_quat = [i \in Rows |-> IF i \in env_ids THEN c.base_init_quat ELSE e.base_quat[i]],
        !.base_lin_vel = [i \in Rows |-> IF i \in env_ids THEN << 0, 0, 0 >> ELSE e.base_lin_vel[i]],
        !.base_ang_vel = [i \in Rows |-> IF i \in env_ids THEN << 0, 0, 0 >> ELSE e.base_ang_vel[i]],
        !.last_actions =
            [i \in Rows |-> IF i \in env_ids THEN Zeros(e.num_actions) ELSE e.last_actions[i]],
        !.last_dof_vel =
            [i \in Rows |-> IF i \in env_ids THEN Zeros(e.num_actions) ELSE e.last_dof_vel[i]],
        !.episode_length_buf = [i \in Rows |-> IF i \in env_ids THEN 0 ELSE e.episode_length_buf[i]],
        !.reset_buf = [i \in Rows |-> IF i \in env_ids THEN TRUE ELSE e.reset_buf[i]],
        !.extras.episode =
            << [n \in DOMAIN e.episode_sums |-> EpisodeAverage(e.episode_sums[n], env_ids, c)] >>,
        !.episode_sums =
            [ n \in DOMAIN e.episode_sums |->
                [i \in Rows |-> IF i \in env_ids THEN 0 ELSE e.episode_sums[n][i]] ] ]

\* A variant of reset_idx without the early return for an empty env_ids.
ResetIdx_NoEarlyReturn(e, c, env_ids, draws) ==
    Bind(ResetBuffers(e, c, env_ids), LAMBDA e1 : ResampleCommands(e1, c, env_ids, draws))

\* reset_idx(env_ids)
ResetIdx(e, c, env_ids, draws) ==
    IF env_ids = {} THEN e
    ELSE Bind(ResetBuffers(e, c, env_ids), LAMBDA e1 : ResampleCommands(e1, c, env_ids, draws))

\* A variant of reset() that skips self.reset_buf[:] = 1 and resets only the
\* rows whose flag is already set.
ResetAll_FlaggedRows(e, c, draws) == ResetIdx(e, c, {i \in Rows : e.reset_buf[i]}, draws)

\* reset(): self.reset_buf[:] = 1, then reset_idx of every row.
ResetAll(e, c, draws) ==
    Bind([e EXCEPT !.reset_buf = [i \in Rows |-> TRUE]], LAMBDA e1 : ResetIdx(e1, c, Rows, draws))

\* ---------------------------------------------------------- reward registry
\* _reward_survive: torch.ones(num_envs)
reward_survive(e) == [i \in Rows |-> One]

\* _reward_action_rate: torch.sum((last_actions - actions) ** 2, dim=1)
reward_action_rate(e) ==
    [ i \in Rows |->
        One * SumOver(1 .. e.num_actions,
                      [k \in 1 .. e.num_actions |->
                         (e.last_actions[i][k] - e.actions[i][k]) * (e.last_actions[i][k] - e.actions[i][k])]) ]

\* A variant of _reward_foot_contact_penalty without the relu.
reward_foot_contact_penalty_NoRelu(e) ==
    [ i \in Rows |->
        LET h == e.current_ankle_heights[1][i]
            contact == Contact(h)
            flight == IF contact[1] + contact[2] = 0 THEN 1 ELSE 0
            one_contact == IF contact[1] + contact[2] = 1 THEN 1 ELSE 0
        IN  flight * One + one_contact * (Max2(h[1], h[2]) - SWING_HEIGHT_THRESHOLD) ]

\* _reward_foot_contact_penalty: flight + swing_hopping
reward_foot_contact_penalty(e) ==
    [ i \in Rows |->
        LET h == e.current_ankle_heights[1][i]
            contact == Contact(h)
            flight == IF contact[1] + contact[2] = 0 THEN 1 ELSE 0
            one_contact == IF contact[1] + contact[2] = 1 THEN 1 ELSE 0
            max_swing_h == Max2(h[1], h[2])
            swing_hopping == one_contact * relu(max_swing_h - SWING_HEIGHT_THRESHOLD)
        IN  flight * One + swing_hopping ]

\* _reward_foot_contact_switch, the value it returns: both_changed
reward_foot_contact_switch(e) ==
    [ i \in Rows |->
        LET contact == Contact(e.current_ankle_heights[1][i])
            change == [f \in 1 .. 2 |-> IF contact[f] # e.prev_contact[i][f] THEN 1 ELSE 0]
        IN  change[1] * change[2] * One ]

\* A variant of _reward_foot_contact_switch that does not update the cache.
SwitchUpdatesCache_Stale(e) == e

\* _reward_foot_contact_switch, its side effect: self.prev_contact[:] = contact
SwitchUpdatesCache(e) ==
    [e EXCEPT !.prev_contact = [i \in Rows |-> Contact(e.current_ankle_heights[1][i])]]

\* torch.sign
sign(x) == IF x > 0 THEN 1 ELSE IF x < 0 THEN -1 ELSE 0

\* torch.exp(-d / 0.3) for an integer d >= 0, in hundredths, rounded down.
ExpOverSigma(d) == IF d = 0 THEN One ELSE IF d = 1 THEN 3 ELSE 0

\* _reward_gait_regularity, lines 402-406: phase_reward
phase_reward(e) ==
    [ i \in Rows |->
        ExpOverSigma(Abs(e.dof_pos[i][e.hip_fe_indices[1]] + e.dof_pos[i][e.hip_fe_indices[2]])) ]

\* torch.sum(self.hip_angle_history): over every row, both hips, every slot.
HistorySum(e) ==
    SumOver(Rows,
            [ i \in Rows |->
                SumOver(1 .. 2,
                        [ s \in 1 .. 2 |->
                            SumOver(0 .. (HistLen - 1), e.hip_angle_history[i][s]) ]) ])

\* torch.diff(left_hip_history, dim=1) of row i: slot k minus slot k - 1.
hip_changes(e, i) ==
    [k \in 1 .. (HistLen - 1) |-> e.hip_angle_history[i][1][k] - e.hip_angle_history[i][1][k - 1]]

\* The loop of lines 413-417 for row i: change_consistency before the division.
change_consistency(e, i) ==
    Bind(hip_changes(e, i), LAMBDA d :
      SumOver(1 .. (HistLen - 2),
              [k \in 1 .. (HistLen - 2) |-> Max2(sign(d[k]) * sign(d[k + 1]), 0)]))

\* _reward_gait_regularity, lines 408-422: periodicity_reward, an exact
\* quotient: change_consistency / (hip_changes.shape[1] - 1) * 0.5.
periodicity_reward(e) ==
    IF HistorySum(e) # 0
    THEN [i \in Rows |-> Frac(change_consistency(e, i), 2 * (HistLen - 2))]
    ELSE [i \in Rows |-> Frac(0, 1)]

\* _reward_gait_regularity: phase_reward + periodicity_reward, in hundredths
\* (the quotient rounded down).
reward_gait_regularity(e) ==
    Bind(periodicity_reward(e), LAMBDA per :
      Bind(phase_reward(e), LAMBDA ph :
        [i \in Rows |-> ph[i] + (per[i].num * One) \div per[i].den] @@ << >>))

\* fn() for the registry entry `name`: the value per row and the object after
\* the call.
Evaluate(name, e) ==
    IF name = "survive" THEN [val |-> reward_survive(e), env |-> e]
    ELSE IF name = "gait_regularity" THEN [val |-> reward_gait_regularity(e), env |-> e]
    ELSE IF name = "action_rate" THEN [val |-> reward_action_rate(e), env |-> e]
    ELSE IF name = "foot_contact_penalty" THEN [val |-> reward_foot_contact_penalty(e), env |-> e]
    ELSE [val |-> reward_foot_contact_switch(e), env |-> SwitchUpdatesCache(e)]

\* One pass of the loop `for name, fn in self.reward_functions.items()` of
\* step, for entry k.  st.env is the object, st.vals and st.rs the values
\* fn() and r of the entries evaluated so far, st.calls the calls fn() made so
\* far, each with the attributes of the object it changed, st.raised the
\* exception that ended the loop ("" for none): self.episode_sums[name] raises
\* KeyError for a name that has no accumulator, after rew_buf has been updated.
RewardEntry(st, k) ==
    LET name == st.env.reward_functions[k]
        known == name \in DOMAIN st.env.episode_sums
    IN  Bind(Evaluate(name, st.env), LAMBDA ev :
          Bind([i \in Rows |-> ev.val[i] * ev.env.reward_scales[name]] @@ << >>, LAMBDA r :
            [ env |-> [ ev.env EXCEPT
                          !.rew_buf = [i \in Rows |-> ev.env.rew_buf[i] + r[i]],
                          !.episode_sums =
                              IF known
                              THEN [ ev.env.episode_sums EXCEPT
                                       ![name] = [i \in Rows |-> ev.env.episode_sums[name][i] + r[i]] ]
                              ELSE ev.env.episode_sums ],
              vals |-> st.vals @@ (name :> ev.val),
              rs |-> st.rs @@ (name :> r),
              calls |-> Append(st.calls,
                               [ name |-> name,
                                 wrote |-> {f \in DOMAIN st.env : ev.env[f] # st.env[f]} ]),
              raised |-> IF known THEN "" ELSE "KeyError" ]))

RECURSIVE RewardLoop(_, _)
\* The loop from entry k on.
RewardLoop(st, k) ==
    IF k > Len(st.env.reward_functions) \/ st.raised # "" THEN st
    ELSE Bind(RewardEntry(st, k), LAMBDA st1 : RewardLoop(st1, k + 1))

\* -------------------------------------------------------------------- step
\* step, lines 236-278: clip the actions, send the position target, advance
\* the backend one tick and read it back (rd), count the tick, record the hip
\* angles in the ring buffer.
ClipActions(acts, c) ==
    [i \in Rows |-> [k \in 1 .. Len(acts[i]) |-> clip(acts[i][k], -c.clip_actions, c.clip_actions)]]

\* A variant of the position target that never applies the latency.
TargetPos_Current(e, c) ==
    [i \in Rows |-> [k \in 1 .. e.num_actions |->
        e.actions[i][k] * c.action_scale + e.default_dof_pos[k]]]

\* exec_actions * action_scale + default_dof_pos
TargetPos(e, c) ==
    LET exec_actions == IF e.simulate_action_latency THEN e.last_actions ELSE e.actions
    IN  [i \in Rows |-> [k \in 1 .. e.num_actions |->
            exec_actions[i][k] * c.action_scale + e.default_dof_pos[k]]]

\* A variant of the ring buffer that writes the sample but keeps the write index.
RecordHipAngles_NoAdvance(e) ==
    [ e EXCEPT
        !.hip_angle_history =
            [i \in Rows |-> [s \in 1 .. 2 |->
                [@[i][s] EXCEPT ![e.history_idx] = e.dof_pos[i][e.hip_fe_indices[s]]]]] ]

\* The hip-angle ring buffer after writing this tick's angles.
RecordHipAngles(e) ==
    [ e EXCEPT
        !.hip_angle_history =
            [i \in Rows |-> [s \in 1 .. 2 |->
                [@[i][s] EXCEPT ![e.history_idx] = e.dof_pos[i][e.hip_fe_indices[s]]]]],
        !.history_idx = (e.history_idx + 1) % HistLen ]

ReadBack(e, c, acts, rd) ==
    Bind(
      [ e EXCEPT
          !.actions = ClipActions(acts, c),
          !.current_ankle_heights = << [i \in Rows |-> rd[i].feet] >>,
          !.episode_length_buf = [i \in Rows |-> @[i] + 1],
          !.base_pos = [i \in Rows |-> rd[i].base_pos],
          !.base_quat = [i \in Rows |-> rd[i].base_quat],
          !.base_euler = << [i \in Rows |-> rd[i].euler] >>,
          !.base_lin_vel = [i \in Rows |-> rd[i].lin_vel],
          !.base_ang_vel = [i \in Rows |-> rd[i].ang_vel],
          !.projected_gravity = [i \in Rows |-> rd[i].gravity],
          !.dof_pos = [i \in Rows |-> rd[i].dof_pos],
          !.dof_vel = [i \in Rows |-> rd[i].dof_vel] ],
      LAMBDA e1 : RecordHipAngles(e1))

\* A variant of the cadence that tests the counter before its increment.
CadenceRows_BeforeIncrement(e, c) ==
    {i \in Rows : (e.episode_length_buf[i] - 1) % ResamplingTicks(c) = 0}

\* step, line 281: the rows whose counter is a multiple of the resampling ticks.
CadenceRows(e, c) == {i \in Rows : e.episode_length_buf[i] % ResamplingTicks(c) = 0}

\* A variant of the termination test that times out one tick early (>=).
Terminate_AtLimit(e, c) ==
    [ e EXCEPT !.reset_buf =
        [ i \in Rows |->
            \/ e.episode_length_buf[i] >= e.max_episode_length
            \/ Abs(e.base_euler[1][i][2]) > c.termination_if_pitch_greater_than
            \/ Abs(e.base_euler[1][i][1]) > c.termination_if_roll_greater_than ] ]

\* step, lines 285-288: done, stored as self.reset_buf.
Terminate(e, c) ==
    [ e EXCEPT !.reset_buf =
        [ i \in Rows |->
            \/ e.episode_length_buf[i] > e.max_episode_length
            \/ Abs(e.base_euler[1][i][2]) > c.termination_if_pitch_greater_than
            \/ Abs(e.base_euler[1][i][1]) > c.termination_if_roll_greater_than ] ]

\* step, lines 291-295: self.rew_buf[:] = 0, then the loop over the registry.
ComputeRewards(e) ==
    Bind([ env |-> [e EXCEPT !.rew_buf = [i \in Rows |-> 0]],
           vals |-> << >>, rs |-> << >>, calls |-> << >>, raised |-> "" ],
         LAMBDA st : RewardLoop(st, 1))

\* step, lines 298-305: one observation row.
ObsRow(e, c, i) ==
    [k \in 1 .. 3 |-> e.base_ang_vel[i][k] * c.obs_scales.ang_vel]
    \o e.projected_gravity[i]
    \o [k \in 1 .. Len(e.commands[i]) |-> e.commands[i][k] * e.commands_scale[k]]
    \o [k \in 1 .. e.num_actions |-> (e.dof_pos[i][k] - e.default_dof_pos[k]) * c.obs_scales.dof_pos]
    \o [k \in 1 .. e.num_actions |-> e.dof_vel[i][k] * c.obs_scales.dof_vel]
    \o e.actions[i]

\* A variant of the observation assembly that does not remember the action.
AssembleObs_StaleLastActions(e, c) ==
    Bind([i \in Rows |-> ObsRow(e, c, i)] @@ << >>, LAMBDA obs :
      [ e EXCEPT
          !.obs_buf = obs,
          !.last_dof_vel = e.dof_vel,
          !.extras.critic = << obs >> ])

\* step, lines 298-310: assemble the observation, remember the action and the
\* joint velocities, publish the critic view.
AssembleObs(e, c) ==
    Bind([i \in Rows |-> ObsRow(e, c, i)] @@ << >>, LAMBDA obs :
      [ e EXCEPT
          !.obs_buf = obs,
          !.last_actions = e.actions,
          !.last_dof_vel = e.dof_vel,
          !.extras.critic = << obs >> ])

\* self.reset_buf.nonzero(): the rows step hands to reset_idx.
Nonzero(buf) == {i \in Rows : buf[i]}

\* step(actions) as a function of the object: rd is what the backend reports
\* after the tick, t1 and t2 what torch.rand draws for the cadence resampling
\* and for the resets.  The object after the call, the exception that left it
\* ("" for none) and, for a call that returns, its result and the object as
\* it stood at line 311, before reset_idx.
StepEnv(e, c, acts, rd, t1, t2) ==
    Bind(ReadBack(e, c, acts, rd), LAMBDA e1 :
      Bind(ResampleCommands(e1, c, CadenceRows(e1, c), t1), LAMBDA e2 :
        Bind(ComputeRewards(Terminate(e2, c)), LAMBDA lp :
          IF lp.raised # ""
          THEN [env |-> lp.env, raised |-> lp.raised, returned |-> << >>, assembled |-> << >>]
          ELSE Bind(AssembleObs(lp.env, c), LAMBDA e4 :
                 Bind(ResetIdx(e4, c, Nonzero(e4.reset_buf), t2), LAMBDA e5 :
                   [ env |-> e5, raised |-> "",
                     returned |-> << e5.obs_buf, e5.rew_buf, e5.reset_buf, e5.extras >>,
                     assembled |-> << e4 >> ])))))

\* ------------------------------------------------------------ state machine
VARIABLES
    cfg,          \* the configuration the object was constructed from
    env,          \* the DodoEnv object: its attributes
    robot,        \* the backend: the last position target it was sent
    raised,       \* the exception that left the last call ("" for none)
    callLog,      \* history: the public calls made so far, in order
    lastIds,      \* history: the rows the last call handed to reset_idx or
                  \* _resample_commands
    termVals,     \* history: fn() of every entry the last step evaluated
    termR,        \* history: r = fn() * scale of those entries
    tickRewards,  \* history: per row, termR of every tick since its last reset
    endedEpisode, \* history: per row reset by the last call, its tickRewards
                  \* when the reset began
    cadenceIds,   \* history: the rows the last step handed to _resample_commands
                  \* at line 282
    evalLog,      \* history: the calls fn() of the last step's reward loop, in
                  \* order, each with the attributes it changed
    hipLog,       \* history: per tick since construction, the hip flexion
                  \* angles << left, right >> the backend reported for each row
    twin,         \* a second DodoEnv object, stepped side by side with env
                  \* (<< >> where there is none)
    preReset      \* history: the object as it stood at line 311 of the last
                  \* step, before its reset_idx (<< >> where not recorded)

vars ==
    << cfg, env, robot, raised, callLog, lastIds, termVals, termR, tickRewards, endedEpisode,
       cadenceIds, evalLog, hipLog, twin, preReset >>

\* The hip flexion angles in a tick's readings, as the backend reported them.
HipAngles(rd) ==
    [ i \in Rows |-> << rd[i].dof_pos[IndexOf(joint_names, "Left_THIGH_FE")],
                        rd[i].dof_pos[IndexOf(joint_names, "Right_THIGH_FE")] >> ]

\* The draws a batch of rows consumes.
DrawsFor(ids) ==
    { [i \in Rows |-> IF i \in ids THEN t[i] ELSE << 0, 0, 0 >>] : t \in DrawTensors }

Init ==
    /\ cfg \in Configs
    /\ env = Construct(cfg)
    /\ robot = [target_pos |-> << >>]
    /\ raised = ""
    /\ callLog = << >>
    /\ lastIds = {}
    /\ termVals = << >>
    /\ termR = << >>
    /\ tickRewards = [i \in Rows |-> << >>]
    /\ endedEpisode = [i \in Rows |-> << >>]
    /\ cadenceIds = {}
    /\ evalLog = << >>
    /\ hipLog = << >>
    /\ twin = << >>
    /\ preReset = << >>

\* A call of step(actions).  rd is what the backend reports after the tick,
\* d1 are the draws of the cadence resampling, d2 those of the resets; e1..e4
\* are the object after lines 278, 282, 288 and 310, lp the outcome of the
\* reward loop.  When the loop raises, the exception leaves step with the
\* object as the loop left it.
Step ==
    /\ raised = ""
    /\ Len(callLog) < MaxCalls
    /\ \E acts \in ActionTensors, rd \in ReadingTensors :
       \E target \in {TargetPos([env EXCEPT !.actions = ClipActions(acts, cfg)], cfg)} :
       \E e1 \in {ReadBack(env, cfg, acts, rd)} :
       \E idx \in {CadenceRows(e1, cfg)} :
       \E d1 \in DrawsFor(idx) :
       \E e2 \in {ResampleCommands(e1, cfg, idx, d1)} :
       \E e3 \in {Terminate(e2, cfg)} :
       \E lp \in {ComputeRewards(e3)} :
       \E ticked \in {[i \in Rows |-> Append(tickRewards[i], [n \in DOMAIN lp.rs |-> lp.rs[n][i]])]} :
         /\ robot' = [target_pos |-> << target >>]
         /\ raised' = lp.raised
         /\ termVals' = lp.vals
         /\ termR' = lp.rs
         /\ cadenceIds' = idx
         /\ evalLog' = lp.calls
         /\ hipLog' = Append(hipLog, HipAngles(rd))
         /\ IF lp.raised # ""
            THEN /\ env' = lp.env
                 /\ lastIds' = {}
                 /\ tickRewards' = ticked
                 /\ endedEpisode' = [i \in Rows |-> << >>]
            ELSE \E e4 \in {AssembleObs(lp.env, cfg)} :
                 \E ids \in {Nonzero(e4.reset_buf)} :
                 \E d2 \in DrawsFor(ids) :
                   /\ env' = ResetIdx(e4, cfg, ids, d2)
                   /\ lastIds' = ids
                   /\ tickRewards' = [i \in Rows |-> IF i \in ids THEN << >> ELSE ticked[i]]
                   /\ endedEpisode' = [i \in Rows |-> IF i \in ids THEN ticked[i] ELSE << >>]
    /\ callLog' = Append(callLog, "step")
    /\ UNCHANGED << cfg, twin, preReset >>

\* A call of reset().
Reset ==
    /\ raised = ""
    /\ Len(callLog) < MaxCalls
    /\ \E d \in DrawTensors : env' = ResetAll(env, cfg, d)
    /\ lastIds' = Rows
    /\ tickRewards' = [i \in Rows |-> << >>]
    /\ endedEpisode' = tickRewards
    /\ termVals' = << >>
    /\ termR' = << >>
    /\ callLog' = Append(callLog, "reset")
    /\ cadenceIds' = {}
    /\ evalLog' = << >>
    /\ UNCHANGED << cfg, robot, raised, hipLog, twin, preReset >>

\* A call of _resample_commands(env_ids) for any set of rows.
Resample ==
    /\ raised = ""
    /\ Len(callLog) < MaxCalls
    /\ \E ids \in SUBSET Rows :
         /\ \E d \in DrawsFor(ids) : env' = ResampleCommands(env, cfg, ids, d)
         /\ lastIds' = ids
    /\ termVals' = << >>
    /\ termR' = << >>
    /\ endedEpisode' = [i \in Rows |-> << >>]
    /\ callLog' = Append(callLog, "resample")
    /\ cadenceIds' = {}
    /\ evalLog' = << >>
    /\ UNCHANGED << cfg, robot, raised, tickRewards, hipLog, twin, preReset >>

Next == Step \/ Reset \/ Resample

Spec == Init /\ [][Next]_vars

\* ------------------------------------ constructing from a used configuration
\* The configuration as a live object: cfg is what the caller's dicts hold
\* now, after the constructions made so far.
InitCtor ==
    /\ \E c \in Configs :
         /\ cfg = ConfigAfterCtor(c)
         /\ env = Construct(c)
    /\ robot = [target_pos |-> << >>]
    /\ raised = ""
    /\ callLog = << >>
    /\ lastIds = {}
    /\ termVals = << >>
    /\ termR = << >>
    /\ tickRewards = [i \in Rows |-> << >>]
    /\ endedEpisode = [i \in Rows |-> << >>]
    /\ cadenceIds = {}
    /\ evalLog = << >>
    /\ hipLog = << >>
    /\ twin = << >>
    /\ preReset = << >>

\* DodoEnv(num_envs, env_cfg, obs_cfg, reward_cfg, command_cfg) once more, with
\* the same configuration objects; env is the new object from here on.
Reconstruct ==
    /\ Len(callLog) < MaxCalls
    /\ env' = Construct(cfg)
    /\ cfg' = ConfigAfterCtor(cfg)
    /\ robot' = [target_pos |-> << >>]
    /\ raised' = ""
    /\ callLog' = Append(callLog, "__init__")
    /\ lastIds' = {}
    /\ termVals' = << >>
    /\ termR' = << >>
    /\ tickRewards' = [i \in Rows |-> << >>]
    /\ endedEpisode' = [i \in Rows |-> << >>]
    /\ cadenceIds' = {}
    /\ evalLog' = << >>
    /\ hipLog' = << >>
    /\ UNCHANGED << twin, preReset >>

NextCtor == Step \/ Reset \/ Resample \/ Reconstruct

SpecCtor == InitCtor /\ [][NextCtor]_vars

\* --------------------------------------------- reset_idx called directly
\* The readings of the ticks here: the odd rows pitch exactly at the
\* threshold, away from the default pose, and the even rows take every
\* reading, so that a tick can end the episode of some rows only.
ObsReadings == {rd \in ReadingTensors : \A i \in Rows : i % 2 = 1 => rd[i].euler = << 0, 30, 0 >>}

\* step, recording the object as it stood before the step's reset_idx.
StepObs ==
    /\ raised = ""
    /\ Len(callLog) < MaxCalls
    /\ \E acts \in ActionTensors, rd \in ObsReadings, t1 \in DrawTensors, t2 \in DrawTensors :
       \E o \in {StepEnv(env, cfg, acts, rd, t1, t2)} :
         /\ env' = o.env
         /\ raised' = o.raised
         /\ preReset' = o.assembled
         /\ lastIds' = IF o.assembled = << >> THEN {} ELSE Nonzero(o.assembled[1].reset_buf)
         /\ hipLog' = Append(hipLog, HipAngles(rd))
    /\ callLog' = Append(callLog, "step")
    /\ UNCHANGED << cfg, robot, termVals, termR, tickRewards, endedEpisode, cadenceIds, evalLog, twin >>

\* A call of reset_idx(env_ids) for any set of rows.
ResetRows ==
    /\ raised = ""
    /\ Len(callLog) < MaxCalls
    /\ \E ids \in SUBSET Rows :
         /\ \E d \in DrawsFor(ids) : env' = ResetIdx(env, cfg, ids, d)
         /\ lastIds' = ids
         /\ tickRewards' = [i \in Rows |-> IF i \in ids THEN << >> ELSE tickRewards[i]]
         /\ endedEpisode' = [i \in Rows |-> IF i \in ids THEN tickRewards[i] ELSE << >>]
    /\ callLog' = Append(callLog, "reset_idx")
    /\ UNCHANGED << cfg, robot, raised, termVals, termR, cadenceIds, evalLog, hipLog, twin, preReset >>

\* get_observations(): republishes the critic view and returns the buffer.
GetObservations ==
    /\ raised = ""
    /\ Len(callLog) < MaxCalls
    /\ env' = [env EXCEPT !.extras.critic = << env.obs_buf >>]
    /\ callLog' = Append(callLog, "get_observations")
    /\ UNCHANGED << cfg, robot, raised, lastIds, termVals, termR, tickRewards, endedEpisode,
                    cadenceIds, evalLog, hipLog, twin, preReset >>

NextReset == StepObs \/ Reset \/ ResetRows \/ GetObservations

SpecReset == Init /\ [][NextReset]_vars

\* ------------------------------------- foot_contact_penalty on its own
\* The evaluator applied to an object whose foot heights are any pair of
\* HeightVals (odd rows hold the pair mirrored).
HeightVals == (-1) .. MaxHeight

InitPenalty ==
    /\ cfg = CfgA
    /\ \E hR \in HeightVals, hL \in HeightVals :
         env = [ Construct(CfgA) EXCEPT
                   !.current_ankle_heights =
                       << [i \in Rows |-> IF i % 2 = 0 THEN << hR, hL >> ELSE << hL, hR >>] >> ]
    /\ robot = [target_pos |-> << >>]
    /\ raised = ""
    /\ callLog = << >>
    /\ lastIds = {}
    /\ termVals = << >>
    /\ termR = << >>
    /\ tickRewards = [i \in Rows |-> << >>]
    /\ endedEpisode = [i \in Rows |-> << >>]
    /\ cadenceIds = {}
    /\ evalLog = << >>
    /\ hipLog = << >>
    /\ twin = << >>
    /\ preReset = << >>

\* One call of self._reward_foot_contact_penalty().
EvalPenalty ==
    /\ callLog = << >>
    /\ callLog' = << "_reward_foot_contact_penalty" >>
    /\ termVals' = ("foot_contact_penalty" :> reward_foot_contact_penalty(env))
    /\ UNCHANGED << cfg, env, robot, raised, lastIds, termR, tickRewards, endedEpisode,
                    cadenceIds, evalLog, hipLog, twin, preReset >>

SpecPenalty == InitPenalty /\ [][EvalPenalty]_vars

\* ----------------------------------------------- two runs side by side
\* Two objects constructed alike and stepped with the same actions and the
\* same draws.  The backend reports the same reading for row 0 in both runs
\* and readings that differ between the runs for the other rows.
TwinReadings == {WithHips(-3, 3), WithHips(-1, 1), WithHips(2, 1)}

InitTwin ==
    /\ cfg = CfgG
    /\ env = Construct(CfgG)
    /\ twin = << Construct(CfgG) >>
    /\ preReset = << >>
    /\ robot = [target_pos |-> << >>]
    /\ raised = ""
    /\ callLog = << >>
    /\ lastIds = {}
    /\ termVals = << >>
    /\ termR = << >>
    /\ tickRewards = [i \in Rows |-> << >>]
    /\ endedEpisode = [i \in Rows |-> << >>]
    /\ cadenceIds = {}
    /\ evalLog = << >>
    /\ hipLog = << >>

\* step(actions) on both objects.
StepTwin ==
    /\ raised = ""
    /\ Len(callLog) < MaxCalls
    /\ \E acts \in ActionTensors, t \in DrawTensors :
       \E a \in TwinReadings, b \in TwinReadings :
       \E b2 \in TwinReadings \ {b} :
       \E rd \in {[i \in Rows |-> IF i = 0 THEN a ELSE b]} :
       \E o \in {StepEnv(env, cfg, acts, rd, t, t)} :
       \E o2 \in {StepEnv(twin[1], cfg, acts, [i \in Rows |-> IF i = 0 THEN a ELSE b2], t, t)} :
         /\ env' = o.env
         /\ twin' = << o2.env >>
         /\ raised' = IF o.raised # "" THEN o.raised ELSE o2.raised
         /\ hipLog' = Append(hipLog, HipAngles(rd))
    /\ callLog' = Append(callLog, "step")
    /\ UNCHANGED << cfg, robot, lastIds, termVals, termR, tickRewards, endedEpisode,
                    cadenceIds, evalLog, preReset >>

SpecTwin == InitTwin /\ [][StepTwin]_vars

\* ------------------------------------------- long runs of the gait term
\* Runs long enough for the ring buffer to wrap around: one configuration,
\* the all-zero action, one tensor of draws (episodes end by timeout).  In
\* every tick the backend reports the left hip of every row swung forward by
\* 1 or back by 2 from where the object last had it (the default pose after a
\* reset); the right hip is in antiphase on even rows and at rest on odd rows.
GaitSwing == {1, -2}

GaitTensors(e) ==
    { [ i \in Rows |->
          WithHips(e.dof_pos[i][e.hip_fe_indices[1]] + swing,
                   IF i % 2 = 0 THEN -(e.dof_pos[i][e.hip_fe_indices[1]] + swing) ELSE 1) ] :
        swing \in GaitSwing }

GaitDraws == [i \in Rows |-> << 0, 50, 75 >>]

InitGait ==
    /\ cfg = CfgG
    /\ env = Construct(CfgG)
    /\ twin = << >>
    /\ preReset = << >>
    /\ robot = [target_pos |-> << >>]
    /\ raised = ""
    /\ callLog = << >>
    /\ lastIds = {}
    /\ termVals = << >>
    /\ termR = << >>
    /\ tickRewards = [i \in Rows |-> << >>]
    /\ endedEpisode = [i \in Rows |-> << >>]
    /\ cadenceIds = {}
    /\ evalLog = << >>
    /\ hipLog = << >>

\* step(zeros)
StepGait ==
    /\ raised = ""
    /\ Len(callLog) < MaxTicks
    /\ \E rd \in GaitTensors(env) :
       \E o \in {StepEnv(env, cfg, [i \in Rows |-> Zeros(cfg.num_actions)], rd, GaitDraws, GaitDraws)} :
         /\ env' = o.env
         /\ raised' = o.raised
         /\ hipLog' = Append(hipLog, HipAngles(rd))
    /\ callLog' = Append(callLog, "step")
    /\ termVals' = << >>
    /\ UNCHANGED << cfg, robot, lastIds, termR, tickRewards, endedEpisode, cadenceIds, evalLog, twin,
                    preReset >>

\* One call of self._reward_gait_regularity() between two steps: the value it
\* returns and the periodicity_reward it computed on the way.
EvalGait ==
    /\ raised = ""
    /\ "gait_regularity" \notin DOMAIN termVals
    /\ termVals' = ("gait_regularity" :> reward_gait_regularity(env))
                    @@ ("periodicity_reward" :> periodicity_reward(env))
    /\ UNCHANGED << cfg, env, robot, raised, callLog, lastIds, termR, tickRewards, endedEpisode,
                    cadenceIds, evalLog, hipLog, twin, preReset >>

NextGait == StepGait \/ EvalGait

SpecGait == InitGait /\ [][NextGait]_vars

\* ---------------------------------------------------------------- claims
\* The last public call ("" before the first).
LastCall == IF callLog = << >> THEN "" ELSE callLog[Len(callLog)]
\* This step of the behaviour is a call of `name`.
Called(name) == callLog' # callLog /\ callLog'[Len(callLog')] = name

\* The number of ticks an episode may last: the least m with m * dt >= episode_length_s.
LeastTicksCovering(c) ==
    CHOOSE m \in 0 .. c.episode_length_ms :
        /\ m * DtNum * 1000 >= c.episode_length_ms * DtDen
        /\ (m - 1) * DtNum * 1000 < c.episode_length_ms * DtDen

\* C1: a step that returns reports row i done exactly when its step counter
\* after the increment exceeds ceil(episode_length_s / dt), or |pitch| or
\* |roll| exceeds its threshold; and exactly the done rows are reset (handed
\* to reset_idx, counter back to 0), the others keep their incremented counter.
C1_DoneIffTermination ==
    [][ (Called("step") /\ raised' = "") =>
          /\ \A i \in Rows :
               /\ env'.reset_buf[i] <=>
                    \/ env.episode_length_buf[i] + 1 > LeastTicksCovering(cfg)
                    \/ Abs(env'.base_euler[1][i][2]) > cfg.termination_if_pitch_greater_than
                    \/ Abs(env'.base_euler[1][i][1]) > cfg.termination_if_roll_greater_than
               /\ env'.episode_length_buf[i] =
                    IF env'.reset_buf[i] THEN 0 ELSE env.episode_length_buf[i] + 1
          /\ lastIds' = {i \in Rows : env'.reset_buf[i]} ]_vars

\* C1 witness: after two ticks one row is done by timeout alone while another
\* row is not done.
C1_Witness ==
    /\ callLog = << "step", "step" >> /\ raised = ""
    /\ \E i, j \in Rows :
         /\ env.reset_buf[i] /\ ~env.reset_buf[j]
         /\ Abs(env.base_euler[1][i][2]) <= cfg.termination_if_pitch_greater_than
         /\ Abs(env.base_euler[1][i][1]) <= cfg.termination_if_roll_greater_than

\* A command component lies in its configured range.
InRange(x, range) == range[1] <= x /\ x <= range[2]

\* C2: after reset() returns, whatever calls preceded it, every row has step
\* counter 0, reset flag true, the default joint pose, zero joint velocities,
\* and each command component inside its sampling range.
C2_AfterReset ==
    LastCall = "reset" =>
      \A i \in Rows :
        /\ env.episode_length_buf[i] = 0
        /\ env.reset_buf[i] = TRUE
        /\ env.dof_pos[i] = cfg.default_joint_angles
        /\ \A k \in 1 .. cfg.num_actions : env.dof_vel[i][k] = 0
        /\ InRange(env.commands[i][1], cfg.lin_vel_x_range)
        /\ InRange(env.commands[i][2], cfg.lin_vel_y_range)
        /\ InRange(env.commands[i][3], cfg.ang_vel_range)

\* C2 witness: reset() after a step that left a row running, away from the
\* default pose.
C2_Witness ==
    /\ callLog = << "step", "reset" >>
    /\ \E i \in Rows : Len(endedEpisode[i]) = 1 /\ env.hip_angle_history[i][1][0] # cfg.default_joint_angles[3]

RECURSIVE SumTicks(_, _)
\* The sum of term n over a list of ticks.
SumTicks(ticks, n) ==
    IF ticks = << >> THEN 0
    ELSE (IF n \in DOMAIN Head(ticks) THEN Head(ticks)[n] ELSE 0) + SumTicks(Tail(ticks), n)

\* C3: every episode accumulator of row i equals the sum of the term's scaled
\* values over the ticks since row i's last reset (so it is 0 for the rows a
\* call resets and grows by this tick's value for the others); and the value
\* a resetting call logs as rew_<term> is the accumulated sum of the rows it
\* resets, averaged over them, divided by episode_length_s.
C3_Accumulators ==
    /\ \A n \in DOMAIN env.episode_sums : \A i \in Rows :
         env.episode_sums[n][i] = SumTicks(tickRewards[i], n)
    /\ (LastCall \in {"step", "reset"} /\ lastIds # {}) =>
         /\ env.extras.episode # << >>
         /\ \A n \in DOMAIN env.episode_sums :
              LET total == SumOver(lastIds, [i \in lastIds |-> SumTicks(endedEpisode[i], n)])
                  logged == env.extras.episode[1][n]
              IN  \* logged = total / |lastIds| / episode_length_s, in units of 1e-5
                  /\ logged.num * Cardinality(lastIds) * cfg.episode_length_ms = total * logged.den
                  /\ logged.den > 0

\* C3 witness: a step resets a row whose episode lasted two ticks and logs a
\* non-zero average, while another row keeps a non-zero accumulator.
C3_Witness ==
    /\ LastCall = "step" /\ raised = ""
    /\ \E i \in lastIds, j \in Rows \ lastIds, n \in DOMAIN env.episode_sums :
         /\ Len(endedEpisode[i]) = 2
         /\ env.episode_sums[n][j] # 0
         /\ env.extras.episode[1][n].num # 0

\* C4: for every configuration the constructor accepts, the first
\* step(all-zero actions) after construction and reset() completes without
\* raising: every registry entry has a scale and an accumulator, and step
\* returns one reward and one observation row per environment.
C4_FirstStepCompletes ==
    (callLog = << "reset", "step" >> /\ \A i \in Rows : env.actions[i] = Zeros(cfg.num_actions)) =>
      /\ raised = ""
      /\ \A k \in 1 .. Len(env.reward_functions) :
           /\ env.reward_functions[k] \in DOMAIN env.reward_scales
           /\ env.reward_functions[k] \in DOMAIN env.episode_sums
      /\ DOMAIN env.rew_buf = Rows
      /\ env.extras.critic = << env.obs_buf >>

\* C5: for every term named in the configured reward_scales, the two foot
\* terms included, the scale step multiplies the term's value by is the
\* configured raw scale times dt.
C5_ScaleIsRawTimesDt ==
    \A n \in ScaleNames(cfg.reward_scales) :
      n \in DOMAIN termVals =>
        \A i \in Rows :
          termR[n][i] * DtDen = termVals[n][i] * RawScale(cfg.reward_scales, n) * DtNum

\* C6: _resample_commands(env_ids) leaves the command of every row outside
\* env_ids as it was, modifies nothing but the commands buffer, and changes
\* nothing at all for an empty env_ids.
C6_ResampleFrame ==
    [][ Called("resample") =>
          /\ \A i \in Rows \ lastIds' : env'.commands[i] = env.commands[i]
          /\ env' = [env EXCEPT !.commands = env'.commands]
          /\ lastIds' = {} => env' = env ]_vars

\* C6 witness: a resampling of row 0 alone that changed its command.
C6_Witness ==
    /\ LastCall = "resample" /\ lastIds = {0}
    /\ env.commands[0] # Zeros(cfg.num_commands)
    /\ env.commands[1] = Zeros(cfg.num_commands)

\* C7: in every tick that follows another tick, foot_contact_switch of row i
\* is 1 if both feet's contact flags differ from the row's flags of the
\* preceding tick and 0 otherwise, also when row i was reset in between; and
\* afterwards the cached previous contact is this tick's flags.
C7_ContactSwitch ==
    [][ (Called("step") /\ env.current_ankle_heights # << >>
           /\ "foot_contact_switch" \in DOMAIN termVals') =>
          \A i \in Rows :
            LET before == Contact(env.current_ankle_heights[1][i])
                now == Contact(env'.current_ankle_heights[1][i])
            IN  /\ termVals'["foot_contact_switch"][i] =
                     IF before[1] # now[1] /\ before[2] # now[2] THEN One ELSE 0
                /\ env'.prev_contact[i] = now ]_vars

\* C7 witness: the second of two ticks; row i, reset by the first, has both
\* flags flipped, another row has not.
C7_Witness ==
    /\ callLog = << "step", "step" >> /\ raised = ""
    /\ \E i, j \in Rows :
         /\ Len(tickRewards[i]) = 1
         /\ termVals["foot_contact_switch"][i] = One
         /\ termVals["foot_contact_switch"][j] = 0

\* C8: for every pair of foot heights, foot_contact_penalty is exactly 1 when
\* both are >= CONTACT_HEIGHT, exactly max(0, max(hL, hR) - 0.10) when exactly
\* one is < CONTACT_HEIGHT, and exactly 0 when both are < CONTACT_HEIGHT.
C8_ContactPenalty ==
    "foot_contact_penalty" \in DOMAIN termVals =>
      \A i \in Rows :
        LET h == env.current_ankle_heights[1][i]
            val == termVals["foot_contact_penalty"][i]
            higher == IF h[1] > h[2] THEN h[1] ELSE h[2]
        IN  /\ (h[1] >= CONTACT_HEIGHT /\ h[2] >= CONTACT_HEIGHT) => val = One
            /\ ((h[1] < CONTACT_HEIGHT) # (h[2] < CONTACT_HEIGHT)) =>
                 val = (IF higher > SWING_HEIGHT_THRESHOLD
                        THEN higher - SWING_HEIGHT_THRESHOLD ELSE 0)
            /\ (h[1] < CONTACT_HEIGHT /\ h[2] < CONTACT_HEIGHT) => val = 0

\* C8 witness: single support with the swing foot 0.02 above the swing
\* threshold, penalised by 0.02.
C8_Witness ==
    /\ "foot_contact_penalty" \in DOMAIN termVals
    /\ \E i \in Rows :
         /\ env.current_ankle_heights[1][i] = << CONTACT_HEIGHT - 1, SWING_HEIGHT_THRESHOLD + 2 >>
         /\ termVals["foot_contact_penalty"][i] = 2

\* C9: the observation rows always have the configured width num_obs (a
\* configuration with another width would have been rejected by the
\* constructor, so no constructed object has one).
C9_ObsWidthIsNumObs ==
    \A i \in Rows : Len(env.obs_buf[i]) = cfg.num_obs

\* C10: a row reset by step or by reset() has all its per-episode state
\* rewritten: joint positions and velocities, base pose and velocities, last
\* action, step counter, previous-contact cache, and the hip-angle history,
\* in which no sample recorded before the reset remains.
C10_ResetRewritesRow ==
    LastCall \in {"step", "reset"} =>
      \A i \in lastIds :
        /\ env.dof_pos[i] = cfg.default_joint_angles
        /\ env.dof_vel[i] = Zeros(cfg.num_actions)
        /\ env.base_pos[i] = cfg.base_init_pos
        /\ env.base_quat[i] = cfg.base_init_quat
        /\ env.base_lin_vel[i] = << 0, 0, 0 >>
        /\ env.base_ang_vel[i] = << 0, 0, 0 >>
        /\ env.last_actions[i] = Zeros(cfg.num_actions)
        /\ env.episode_length_buf[i] = 0
        /\ \A s \in 1 .. 2 : \A k \in 0 .. (HistLen - 1) : env.hip_angle_history[i][s][k] = 0

\* Row i has had no tick since its last reset (or since construction).
FreshRow(i) == tickRewards[i] = << >>

\* C11: with latency simulation on (the default when the key is absent) the
\* position target step sends for row i is A * action_scale + default pose,
\* A being the clipped action of row i's previous step, or 0 when the row was
\* reset since or has not been stepped yet; with latency off A is this
\* step's clipped action.  The clipped action lies in [-clip_actions, clip_actions].
C11_LatencyTarget ==
    [][ Called("step") =>
          \A i \in Rows :
            LET latency == IF cfg.simulate_action_latency = << >>
                           THEN TRUE ELSE cfg.simulate_action_latency[1]
                A == IF ~latency THEN env'.actions[i]
                     ELSE IF FreshRow(i) THEN Zeros(cfg.num_actions) ELSE env.actions[i]
            IN  /\ robot'.target_pos[1][i] =
                     [k \in 1 .. cfg.num_actions |->
                        A[k] * cfg.action_scale + cfg.default_joint_angles[k]]
                /\ \A k \in 1 .. cfg.num_actions :
                     /\ -cfg.clip_actions <= env'.actions[i][k]
                     /\ env'.actions[i][k] <= cfg.clip_actions ]_vars

\* C11 witness: a second step with latency on whose target for one row
\* carries the previous, non-zero action while the target of a row reset by
\* the first step is the default pose, although this step's action is not zero.
C11_Witness ==
    /\ callLog = << "step", "step" >> /\ cfg.simulate_action_latency = << >>
    /\ \E i, j \in Rows :
         /\ robot.target_pos[1][i] # cfg.default_joint_angles
         /\ robot.target_pos[1][j] = cfg.default_joint_angles
         /\ env.actions[j] # Zeros(cfg.num_actions)

\* K of the cadence: the greatest number of ticks that fit in resampling_time_s.
GreatestTicksWithin(c) ==
    CHOOSE k \in 0 .. c.resampling_time_ms :
        /\ k * DtNum * 1000 <= c.resampling_time_ms * DtDen
        /\ (k + 1) * DtNum * 1000 > c.resampling_time_ms * DtDen

\* C12: in every step the cadence redraws the command of exactly the rows
\* whose counter after the increment is a multiple of K = int(resampling_time_s
\* / dt); a row whose counter is not a multiple of K and that does not
\* terminate in this step has the same command after the step as before.
C12_Cadence ==
    [][ Called("step") =>
          LET due == {i \in Rows : (env.episode_length_buf[i] + 1) % GreatestTicksWithin(cfg) = 0}
          IN  /\ cadenceIds' = due
              /\ \A i \in Rows \ due :
                   ~env'.reset_buf[i] => env'.commands[i] = env.commands[i] ]_vars

\* C12 witness: a step that returns, in which the cadence redraws some rows
\* and leaves alone a row that keeps running.
C12_Witness ==
    /\ LastCall = "step" /\ raised = ""
    /\ cadenceIds # {}
    /\ \E j \in Rows \ cadenceIds : ~env.reset_buf[j]

\* C13: the episode averages in the extras a step returns describe the rows
\* reset in that step: a step that resets no row returns extras without
\* episode averages (none computed by an earlier step or by reset()).
C13_ExtrasOfThisStep ==
    (LastCall = "step" /\ raised = "" /\ lastIds = {}) => env.extras.episode = << >>

\* C14: environments do not interact: in two runs that apply the same steps
\* and agree on everything of row 0 (readings, actions, draws) but differ in
\* the other rows, every step returns the same reward, done flag and
\* observation for row 0.
C14_RowsDoNotInteract ==
    (twin # << >> /\ callLog # << >> /\ raised = "") =>
      /\ env.rew_buf[0] = twin[1].rew_buf[0]
      /\ env.reset_buf[0] = twin[1].reset_buf[0]
      /\ env.obs_buf[0] = twin[1].obs_buf[0]

\* The left hip angles of row i in the HistLen most recent ticks, oldest first
\* (defined once HistLen ticks have happened).
RecentLeftHip(i) ==
    [k \in 1 .. HistLen |-> hipLog[Len(hipLog) - HistLen + k][i][1]]

\* The number of adjacent pairs of first differences of a list of samples
\* whose signs multiply to 1.
SameDirectionPairs(samples) ==
    LET d == [k \in 1 .. (Len(samples) - 1) |-> samples[k + 1] - samples[k]]
    IN  Cardinality({k \in 1 .. (Len(d) - 1) : sign(d[k]) * sign(d[k + 1]) = 1})

\* C15: the direction-consistency part of gait_regularity of row i is
\* 0.5 * (1/8) * the number of adjacent pairs of first differences with sign
\* product 1, the differences taken between chronologically consecutive
\* samples of the 10 most recent ticks, wherever the write index stands.
C15_DirectionConsistency ==
    ("periodicity_reward" \in DOMAIN termVals /\ Len(hipLog) >= HistLen) =>
      \A i \in Rows :
        LET got == termVals["periodicity_reward"][i]
        IN  got.num * 2 * (HistLen - 2) = SameDirectionPairs(RecentLeftHip(i)) * got.den

\* The sample the ring buffer of row i should hold for hip s in slot k after
\* the ticks logged so far: that of the most recent tick that wrote slot k,
\* among the HistLen most recent ticks; 0 if there is none.
ExpectedSlot(i, s, k) ==
    LET n == Len(hipLog)
        ms == {m \in 1 .. n : m > n - HistLen /\ (m - 1) % HistLen = k}
    IN  IF ms = {} THEN 0 ELSE hipLog[CHOOSE m \in ms : TRUE][i][s]

\* C16: after n steps since construction the write index is n mod 10, in
\* 0..9, and every row's history holds exactly the hip angles read in the
\* min(n, 10) most recent ticks, each in the slot of its tick, the other slots 0.
C16_RingBuffer ==
    /\ env.history_idx = Len(hipLog) % HistLen
    /\ env.history_idx \in 0 .. (HistLen - 1)
    /\ \A i \in Rows : \A s \in 1 .. 2 : \A k \in 0 .. (HistLen - 1) :
         env.hip_angle_history[i][s][k] = ExpectedSlot(i, s, k)

\* C16 witness: the eleventh step has overwritten slot 0, which held the
\* oldest sample, with a different angle, and the write index stands at 1.
C16_Witness ==
    /\ Len(hipLog) = HistLen + 1
    /\ env.history_idx = 1
    /\ env.hip_angle_history[0][1][0] = hipLog[HistLen + 1][0][1]
    /\ hipLog[HistLen + 1][0][1] # hipLog[1][0][1]

\* C17: on return from every step every row's counter lies in
\* 0..max_episode_length and is 0 exactly for the rows returned as done; a row
\* that is done without exceeding the pitch/roll thresholds has run exactly
\* max_episode_length + 1 ticks since its previous reset, and no row runs on
\* beyond max_episode_length ticks.
C17_CounterRange ==
    (LastCall = "step" /\ raised = "") =>
      \A i \in Rows :
        /\ env.episode_length_buf[i] \in 0 .. LeastTicksCovering(cfg)
        /\ (env.episode_length_buf[i] = 0) <=> env.reset_buf[i]
        /\ ( /\ env.reset_buf[i]
             /\ Abs(env.base_euler[1][i][2]) <= cfg.termination_if_pitch_greater_than
             /\ Abs(env.base_euler[1][i][1]) <= cfg.termination_if_roll_greater_than )
           => Len(endedEpisode[i]) = LeastTicksCovering(cfg) + 1
        /\ Len(tickRewards[i]) <= LeastTicksCovering(cfg)

\* C17 witness: a step returns one row done by timeout, its counter back at
\* 0, and another row running with its counter at max_episode_length.
C17_Witness ==
    /\ LastCall = "step" /\ raised = ""
    /\ \E i, j \in Rows :
         /\ env.reset_buf[i] /\ env.episode_length_buf[i] = 0
         /\ Abs(env.base_euler[1][i][2]) <= cfg.termination_if_pitch_greater_than
         /\ Abs(env.base_euler[1][i][1]) <= cfg.termination_if_roll_greater_than
         /\ ~env.reset_buf[j] /\ env.episode_length_buf[j] = env.max_episode_length

\* The configuration with this id as the caller wrote it.
AsWritten(id) == CHOOSE c \in Configs \cup {CfgG} : c.id = id

\* C18: the scale of a term is static: every environment constructed from
\* the same configuration object uses, for each configured term, the raw
\* scale times dt, however many environments were constructed from it before.
\* (The two foot terms, whose scale the constructor fixes, are C5's subject
\* and left out here.)
C18_ScaleIsStatic ==
    \A n \in ScaleNames(AsWritten(cfg.id).reward_scales)
              \ {"foot_contact_penalty", "foot_contact_switch"} :
      env.reward_scales[n] * DtDen = RawScale(AsWritten(cfg.id).reward_scales, n) * DtNum

\* Every evaluation of the last step's reward loop changed no attribute of
\* the object, except foot_contact_switch, which changed at most prev_contact.
OnlyCacheWritten ==
    \A k \in 1 .. Len(evalLog) :
      evalLog[k].wrote \subseteq
        (IF evalLog[k].name = "foot_contact_switch" THEN {"prev_contact"} ELSE {})

\* C19: evaluating a reward term changes no attribute of the object, except
\* foot_contact_switch, which changes only the previous-contact cache; and
\* foot_contact_switch is evaluated exactly once in every step.
C19_EvaluatorsFrame ==
    LastCall = "step" =>
      /\ OnlyCacheWritten
      /\ Cardinality({k \in 1 .. Len(evalLog) : evalLog[k].name = "foot_contact_switch"}) = 1

\* C20: in every step action_rate of row i is the sum over the joints of
\* (P - a)^2, a being this step's clipped action and P the clipped action of
\* row i's previous step, or 0 when the row was reset since or has not been
\* stepped yet; after a step that returns, last_actions holds this step's
\* clipped action for the rows that keep running and 0 for the rows it reset.
C20_ActionRate ==
    [][ Called("step") =>
          \A i \in Rows :
            LET P == IF FreshRow(i) THEN Zeros(cfg.num_actions) ELSE env.actions[i]
                a == env'.actions[i]
            IN  /\ "action_rate" \in DOMAIN termVals' =>
                     termVals'["action_rate"][i] =
                       One * SumOver(1 .. cfg.num_actions,
                                     [k \in 1 .. cfg.num_actions |-> (P[k] - a[k]) * (P[k] - a[k])])
                /\ raised' = "" =>
                     env'.last_actions[i] = IF i \in lastIds' THEN Zeros(cfg.num_actions) ELSE a ]_vars

\* The number of ticks of row i's episode up to and including the last step.
TicksOfEpisode(i) == IF i \in lastIds THEN Len(endedEpisode[i]) ELSE Len(tickRewards[i])

\* C20 witness: a second step with the zero action after a first step with a
\* non-zero one: a row in the second tick of its episode has a non-zero
\* action_rate, a row the first step reset has action_rate 0.
C20_Witness ==
    /\ callLog = << "step", "step" >> /\ raised = ""
    /\ "action_rate" \in DOMAIN termVals
    /\ \E i, j \in Rows :
         /\ TicksOfEpisode(i) = 2 /\ TicksOfEpisode(j) = 1
         /\ env.actions[i] = Zeros(cfg.num_actions) /\ env.actions[j] = Zeros(cfg.num_actions)
         /\ termVals["action_rate"][i] # 0
         /\ termVals["action_rate"][j] = 0

\* The entries of row i in the per-row buffers of an object.
RowState(e, i) ==
    [ dof_pos |-> e.dof_pos[i], dof_vel |-> e.dof_vel[i],
      base_pos |-> e.base_pos[i], base_quat |-> e.base_quat[i],
      base_lin_vel |-> e.base_lin_vel[i], base_ang_vel |-> e.base_ang_vel[i],
      last_actions |-> e.last_actions[i], last_dof_vel |-> e.last_dof_vel[i],
      episode_length_buf |-> e.episode_length_buf[i], reset_buf |-> e.reset_buf[i],
      prev_contact |-> e.prev_contact[i],
      episode_sums |-> [n \in DOMAIN e.episode_sums |-> e.episode_sums[n][i]],
      commands |-> e.commands[i] ]

\* C21: reset_idx(env_ids) changes no per-row buffer entry (joint state, base
\* pose and velocities, last action, counter, reset flag, previous contact,
\* accumulators, command) of a row outside env_ids, and with an empty env_ids
\* it changes nothing at all, the extras included.
C21_ResetIdxFrame ==
    [][ Called("reset_idx") =>
          /\ \A i \in Rows \ lastIds' : RowState(env', i) = RowState(env, i)
          /\ lastIds' = {} => env' = env ]_vars

\* C21 witness: reset_idx of row 0 alone, after a step that left row 1
\* running with a non-zero accumulator and row 0 away from the default pose.
C21_Witness ==
    /\ callLog = << "step", "reset_idx" >> /\ lastIds = {0}
    /\ env.episode_length_buf[0] = 0 /\ env.episode_length_buf[1] = 1
    /\ env.dof_pos[0] # env.dof_pos[1]
    /\ \E n \in DOMAIN env.episode_sums : env.episode_sums[n][1] # 0 /\ env.episode_sums[n][0] = 0

\* The observation row that matches the state an object holds for row i:
\* angular velocity, gravity, command, joint offsets, joint velocities and the
\* last action, each with its scale.
HeldObs(e, c, i) ==
    << e.base_ang_vel[i][1] * c.obs_scales.ang_vel,
       e.base_ang_vel[i][2] * c.obs_scales.ang_vel,
       e.base_ang_vel[i][3] * c.obs_scales.ang_vel >>
    \o e.projected_gravity[i]
    \o [k \in 1 .. 3 |-> e.commands[i][k] * e.commands_scale[k]]
    \o [k \in 1 .. e.num_actions |-> (e.dof_pos[i][k] - e.default_dof_pos[k]) * c.obs_scales.dof_pos]
    \o [k \in 1 .. e.num_actions |-> e.dof_vel[i][k] * c.obs_scales.dof_vel]
    \o e.last_actions[i]

\* C22: only step writes the observation buffer, and it does so before its
\* resets: reset(), reset_idx and get_observations leave the buffer as the
\* last step left it (all zeros while no step has happened); after a step,
\* the row of a row reset in it is the one built from the state and command
\* held just before the reset, and the row of every other row matches the
\* joint state, command and last action held on return.
C22_ObsAssembledInStep ==
    [][ /\ (\A k \in 1 .. Len(callLog) : callLog[k] # "step")
            => env.obs_buf = [i \in Rows |-> Zeros(cfg.num_obs)]
        /\ (Called("reset") \/ Called("reset_idx") \/ Called("get_observations"))
            => env'.obs_buf = env.obs_buf
        /\ (Called("step") /\ raised' = "")
            => /\ preReset' # << >>
               /\ lastIds' = Nonzero(env'.reset_buf)
               /\ \A i \in lastIds' : env'.obs_buf[i] = HeldObs(preReset'[1], cfg, i)
               /\ \A i \in Rows \ lastIds' : env'.obs_buf[i] = HeldObs(env', cfg, i) ]_vars

\* C22 witness: a step that reset row 0 alone and drew it a new command, so
\* that its returned row no longer matches the state held for it, while
\* row 1 goes on with a non-zero row.
C22_Witness ==
    /\ LastCall = "step" /\ raised = "" /\ lastIds = {0}
    /\ preReset # << >>
    /\ preReset[1].commands[0] # env.commands[0]
    /\ env.obs_buf[0] # HeldObs(env, cfg, 0)
    /\ env.obs_buf[0] = HeldObs(preReset[1], cfg, 0)
    /\ env.obs_buf[1] # Zeros(cfg.num_obs)

====
